---- MODULE Spec2Model ----
(***************************************************************************)
(* Model of the multi-version dropdown updater (src/core.py).              *)
(*                                                                         *)
(* Text (directory names, URLs, search.json documents) is a sequence of    *)
(* one-character strings.  The four parts of the program are modelled by   *)
(* operators translated from the functions of core.py and exercised by     *)
(* four specifications:                                                    *)
(*   SpecOrder   - generate_dropdown_list over directory listings          *)
(*   SpecInject  - process_single_html_file called repeatedly on one page  *)
(*   SpecRewrite - update_single_search_json called repeatedly on one file *)
(*   Spec        - main(): the whole run over a small site                 *)
(***************************************************************************)
EXTENDS Integers, Sequences, FiniteSets, TLC

VARIABLES
  \* generate_dropdown_list
  matching_dirs,      \* what os.listdir returned, in the order it returned it
  refs_order,         \* --refs_order
  ordered_refs,       \* the order the last generate_dropdown_list built
  remaining_sorted,   \* what its sort_remaining_refs returned
  prev_ordered_refs,  \* the order the run before built
  gen_runs,           \* how many times generate_dropdown_list ran
  \* process_single_html_file
  html_file,          \* the HTML file on disk
  html_before,        \* the file before the last call
  dropdown_list,      \* the markup the calls are given
  inj_outcomes,       \* the outcome of each call so far
  \* update_single_search_json
  json_file,          \* the search.json on disk
  json_before,        \* the file before the last call
  base_url,           \* --base_url
  version,            \* the directory name
  updated_content,    \* what the last call's url_pattern.sub returned
  rw_outcomes,        \* the outcome of each call so far
  \* main
  site,               \* HTML file -> its content on disk
  site_before,        \* the site when main started
  json_site,          \* matching directory -> its search.json
  phase,              \* where main is
  next_html,          \* the next file os.walk yields
  next_dir,           \* the next directory of update_search_json_urls
  html_results        \* HTML file -> what process_single_html_file did

vars == <<matching_dirs, refs_order, ordered_refs, remaining_sorted,
          prev_ordered_refs, gen_runs, html_file, html_before, dropdown_list,
          inj_outcomes, json_file, json_before, base_url, version,
          updated_content, rw_outcomes, site, site_before, json_site, phase, next_html,
          next_dir, html_results>>

orderVars == <<matching_dirs, refs_order, ordered_refs, remaining_sorted,
               prev_ordered_refs, gen_runs>>

injectVars == <<html_file, html_before, dropdown_list, inj_outcomes>>

rewriteVars == <<json_file, json_before, base_url, version, updated_content,
                 rw_outcomes>>

mainVars == <<site, site_before, json_site, phase, next_html, next_dir,
              html_results>>

(***************************************************************************)
(* Bounds of the model.                                                    *)
(***************************************************************************)
MaxListing == 3      \* directories os.listdir returns
MaxRefsOrder == 2    \* entries of --refs_order
MaxGenRuns == 2      \* runs of generate_dropdown_list
MaxChildren == 3     \* children of the navbar <ul> of a starting page
MaxInjRuns == 2      \* calls of process_single_html_file on one file
MaxTextLen == 3      \* characters of a starting search.json
MaxUrlLen == 2       \* characters of --base_url
MaxVersionLen == 2   \* characters of a directory name
MaxRwRuns == 2       \* calls of update_single_search_json on one file
NumHtmlFiles == 2    \* *.html files of the site
MaxSiteDirs == 2     \* matching directories of the site

(***************************************************************************)
(* Sequences and text.                                                     *)
(***************************************************************************)
Range(s) == {s[i] : i \in 1..Len(s)}

InSeq(x, s) == \E i \in 1..Len(s) : s[i] = x

NoDuplicates(s) == \A i, j \in 1..Len(s) : s[i] = s[j] => i = j

SeqsUpTo(S, n) == UNION {[1..k -> S] : k \in 0..n}

DistinctSeqsUpTo(S, n) == {s \in SeqsUpTo(S, n) : NoDuplicates(s)}

\* Every order a listing of the same directories may come in.
Orderings(s) == {p \in [1..Len(s) -> Range(s)] : Range(p) = Range(s)}

\* The code points Python compares strings by.
CharCode(c) ==
  CASE c = "." -> 46 [] c = "/" -> 47 [] c = "0" -> 48 [] c = "1" -> 49
    [] c = "2" -> 50 [] c = "\\" -> 92 [] c = "a" -> 97 [] c = "d" -> 100
    [] c = "e" -> 101 [] c = "i" -> 105 [] c = "l" -> 108 [] c = "m" -> 109
    [] c = "n" -> 110 [] c = "p" -> 112 [] c = "t" -> 116 [] c = "u" -> 117
    [] c = "v" -> 118

Digits == {"0", "1", "2"}

DigitVal(c) == CharCode(c) - CharCode("0")

RECURSIVE SeqLess(_, _, _)
\* a < b as Python compares two tuples of integers, from index i on.
SeqLess(a, b, i) ==
  IF i > Len(a) THEN i <= Len(b)
  ELSE IF i > Len(b) THEN FALSE
  ELSE IF a[i] /= b[i] THEN a[i] < b[i]
  ELSE SeqLess(a, b, i + 1)

Codes(s) == [i \in 1..Len(s) |-> CharCode(s[i])]

\* a < b as Python compares two str.
StrLess(a, b) == SeqLess(Codes(a), Codes(b), 1)

(***************************************************************************)
(* packaging.version.Version, for names of the form [v]N(.N)*: the parsed  *)
(* release, or InvalidVersion.  Versions compare by their release with the *)
(* trailing zeros dropped, so Version("1.0") == Version("1.0.0").          *)
(***************************************************************************)
InvalidVersion == [ok |-> FALSE, release |-> <<>>]

RECURSIVE ParseRelease(_, _, _, _, _)
ParseRelease(s, i, cur, inNumber, acc) ==
  IF i > Len(s) THEN
    IF inNumber THEN [ok |-> TRUE, release |-> Append(acc, cur)]
    ELSE InvalidVersion
  ELSE IF s[i] \in Digits THEN
    ParseRelease(s, i + 1, cur * 10 + DigitVal(s[i]), TRUE, acc)
  ELSE IF s[i] = "." /\ inNumber THEN
    ParseRelease(s, i + 1, 0, FALSE, Append(acc, cur))
  ELSE InvalidVersion

RECURSIVE StripTrailingZeros(_)
StripTrailingZeros(r) ==
  IF Len(r) > 0 /\ r[Len(r)] = 0 THEN StripTrailingZeros(SubSeq(r, 1, Len(r) - 1))
  ELSE r

Version(ref) ==
  LET body == IF Len(ref) > 0 /\ ref[1] = "v" THEN Tail(ref) ELSE ref
      p == ParseRelease(body, 1, 0, FALSE, <<>>)
  IN IF p.ok THEN [ok |-> TRUE, release |-> StripTrailingZeros(p.release)]
     ELSE InvalidVersion

(***************************************************************************)
(* The reference names of the model.                                       *)
(***************************************************************************)
NameMain == <<"m", "a", "i", "n">>
NameDev == <<"d", "e", "v">>
Name10 == <<"1", ".", "0">>
Name100 == <<"1", ".", "0", ".", "0">>
NameV2 == <<"v", "2", ".", "0">>
NameLatest == <<"l", "a", "t">>

\* Directory names the pattern matches.
DirNames == {NameMain, NameDev, Name10, Name100, NameV2}

\* Names --refs_order may hold: a directory's, or one that names none.
RefNames == DirNames \cup {NameLatest}

(***************************************************************************)
(* generate_dropdown_list and what it calls.                               *)
(***************************************************************************)
separate_refs(dirs, order) ==
  [ordered_refs |-> SelectSeq(order, LAMBDA d : InSeq(d, dirs)),
   remaining_refs |-> SelectSeq(dirs, LAMBDA d : ~InSeq(d, order))]

sorting_key(ref) ==
  LET v == Version(ref)
  IN IF v.ok THEN [rank |-> 0, ver |-> v.release, str |-> <<>>]
     ELSE [rank |-> 1, ver |-> <<>>, str |-> ref]

\* k1 < k2 as Python compares the two tuples.
KeyLess(k1, k2) ==
  IF k1.rank /= k2.rank THEN k1.rank < k2.rank
  ELSE IF k1.rank = 0 THEN SeqLess(k1.ver, k2.ver, 1)
  ELSE StrLess(k1.str, k2.str)

\* list.sort(reverse=True) is stable: x goes after every element whose key
\* is not less than its own.
InsertDescending(sorted, x) ==
  LET n == Cardinality({i \in 1..Len(sorted) :
                          ~KeyLess(sorting_key(sorted[i]), sorting_key(x))})
  IN SubSeq(sorted, 1, n) \o <<x>> \o SubSeq(sorted, n + 1, Len(sorted))

RECURSIVE SortFrom(_, _, _)
SortFrom(refs, i, acc) ==
  IF i > Len(refs) THEN acc
  ELSE SortFrom(refs, i + 1, InsertDescending(acc, refs[i]))

sort_remaining_refs(remaining_refs) == SortFrom(remaining_refs, 1, <<>>)

generate_refs_dict(refs, url) == [ref \in Range(refs) |-> url \o ref]

\* The markup string: the fixed <li class="nav-item dropdown"> part
\* (nav_item) and one link per entry of the order.
generate_markup(refs, refs_dict) ==
  [nav_item |-> TRUE,
   links |-> [i \in 1..Len(refs) |-> [label |-> refs[i], href |-> refs_dict[refs[i]]]]]

\* The order generate_dropdown_list builds (lines 123-126).
OrderedRefs(dirs, order) ==
  LET sep == separate_refs(dirs, order)
  IN sep.ordered_refs \o sort_remaining_refs(sep.remaining_refs)

generate_dropdown_list(dirs, order, url) ==
  generate_markup(OrderedRefs(dirs, order), generate_refs_dict(OrderedRefs(dirs, order), url))

(***************************************************************************)
(* HTML pages.  A file is unreadable, empty (lxml raises ParserError:      *)
(* "Document is empty"), malformed (lxml raises XMLSyntaxError) or a page. *)
(* Of a page the model keeps whether it starts with the DOCTYPE and the    *)
(* generator comment process_single_html_file writes (hdr), whether        *)
(* find_navbar's xpath matches (nav), and the children of that <ul>:       *)
(*   item   - an <li class="nav-item"> that is no widget                   *)
(*   other  - a child the nav-item xpath does not match                    *)
(*   widget - an <li> with a <div aria-labelledby="dropdown-versions">,    *)
(*            with its id attribute ("none": it has none) and its links    *)
(*   div    - a <div> holding children of its own                          *)
(***************************************************************************)
NoId == "none"

IdValues == {NoId, "a", "b"}

Item == [tag |-> "item", id |-> NoId, links |-> <<>>, kids |-> <<>>]

Other == [tag |-> "other", id |-> NoId, links |-> <<>>, kids |-> <<>>]

Widget(id, links) == [tag |-> "widget", id |-> id, links |-> links, kids |-> <<>>]

Div(kids) == [tag |-> "div", id |-> NoId, links |-> <<>>, kids |-> kids]

Unreadable == [kind |-> "unreadable", hdr |-> FALSE, nav |-> FALSE, kids |-> <<>>]

EmptyDocument == [kind |-> "empty", hdr |-> FALSE, nav |-> FALSE, kids |-> <<>>]

Malformed == [kind |-> "malformed", hdr |-> FALSE, nav |-> FALSE, kids |-> <<>>]

Page(hdr, nav, kids) == [kind |-> "page", hdr |-> hdr, nav |-> nav, kids |-> kids]

\* A markup string with no element in it, such as the empty string.
EmptyMarkup == [nav_item |-> FALSE, links |-> <<>>]

None == [ok |-> FALSE]

find_navbar(tree) == IF tree.nav THEN [ok |-> TRUE, kids |-> tree.kids] ELSE None

\* lxml: an element with no children is false.
Falsy(navbar) == ~navbar.ok \/ Len(navbar.kids) = 0

IsNavItem(n) == n.tag \in {"item", "widget"}

\* .//li[contains(@class, "nav-item")]: the matches among the descendants.
find_navbar_items(navbar) ==
  {n \in Range(navbar.kids) : IsNavItem(n)}
    \cup UNION {{m \in Range(n.kids) : IsNavItem(m)} : n \in Range(navbar.kids)}

\* html.fromstring of the markup: the <li>, which has no id attribute.
create_versions_dropdown(markup) ==
  IF markup.nav_item THEN [ok |-> TRUE, li |-> Widget(NoId, markup.links)] ELSE None

Indices(s) == [i \in 1..Len(s) |-> i]

WidgetsIn(kids, prefix) ==
  LET at == SelectSeq(Indices(kids), LAMBDA j : kids[j].tag = "widget")
  IN [n \in 1..Len(at) |-> [path |-> prefix \o <<at[n]>>, id |-> kids[at[n]].id]]

RECURSIVE ExistingFrom(_, _)
ExistingFrom(kids, i) ==
  IF i > Len(kids) THEN <<>>
  ELSE (IF kids[i].tag = "widget" THEN <<[path |-> <<i>>, id |-> kids[i].id]>>
        ELSE WidgetsIn(kids[i].kids, <<i>>))
       \o ExistingFrom(kids, i + 1)

\* .//li[div/@aria-labelledby="dropdown-versions"], in document order: each
\* match's place in the tree and its id attribute.
existing_dropdown(navbar) == ExistingFrom(navbar.kids, 1)

\* Lines 209-216: a match is removed when an earlier match has its id.
Duplicates(existing) ==
  {existing[k].path : k \in {k \in 1..Len(existing) :
      \E m \in 1..(k - 1) : existing[m].id = existing[k].id}}

RECURSIVE Rebuild(_, _, _, _, _)
\* The children with every `removed` place dropped and the node at `first`
\* replaced by `new` (lines 216 and 220).
Rebuild(kids, prefix, first, removed, new) ==
  LET keep == SelectSeq(Indices(kids), LAMBDA j : prefix \o <<j>> \notin removed)
  IN [n \in 1..Len(keep) |->
        LET p == prefix \o <<keep[n]>>
            node == kids[keep[n]]
        IN IF p = first THEN new
           ELSE IF node.tag = "div"
             THEN [node EXCEPT !.kids = Rebuild(node.kids, p, first, removed, new)]
           ELSE node]

\* Lines 201-205: the widget goes into a new <div>, which goes after navbar[-1].
InsertNew(kids, li) == Append(kids, Div(<<li>>))

\* Lines 209-222.
DedupeAndReplace(kids, existing, li) ==
  Rebuild(kids, <<>>, existing[1].path, Duplicates(existing), li)

insert_versions_dropdown(tree, markup) ==
  LET navbar == find_navbar(tree)
      created == create_versions_dropdown(markup)
      existing == existing_dropdown(navbar)
  IN IF Falsy(navbar) THEN [ok |-> FALSE, why |-> "no_navbar", tree |-> tree]
     ELSE IF find_navbar_items(navbar) = {}
       THEN [ok |-> FALSE, why |-> "no_navbar_items", tree |-> tree]
     ELSE IF ~created.ok THEN [ok |-> FALSE, why |-> "no_dropdown", tree |-> tree]
     ELSE IF Len(existing) = 0
       THEN [ok |-> TRUE, why |-> "inserted",
             tree |-> [tree EXCEPT !.kids = InsertNew(tree.kids, created.li)]]
     ELSE [ok |-> TRUE, why |-> "replaced",
           tree |-> [tree EXCEPT !.kids = DedupeAndReplace(tree.kids, existing, created.li)]]

\* html.fromstring of a page: the root element; the DOCTYPE and a comment
\* before <html> are not part of it.
ParseHtml(content) == [nav |-> content.nav, kids |-> content.kids]

\* Lines 299-302: the DOCTYPE, the generator comment and the tree.
Serialize(tree) == Page(TRUE, tree.nav, tree.kids)

\* What write_file may do: write; fail at open() and leave the file; fail
\* after open() truncated it.
WriteResults == {"written", "denied", "truncated"}

write_file(old, new, wr) ==
  CASE wr = "written" -> [ok |-> TRUE, content |-> new]
    [] wr = "denied" -> [ok |-> FALSE, content |-> old]
    [] wr = "truncated" -> [ok |-> FALSE, content |-> EmptyDocument]

\* process_single_html_file without the return of lines 295-297: the tree is
\* written whatever insert_versions_dropdown returned.
process_single_html_file_no_return(content, markup, wr) ==
  IF content.kind = "unreadable" THEN [outcome |-> "read_failed", content |-> content]
  ELSE IF content.kind = "empty" THEN [outcome |-> "raised", content |-> content]
  ELSE IF content.kind = "malformed" THEN [outcome |-> "parse_failed", content |-> content]
  ELSE LET ins == insert_versions_dropdown(ParseHtml(content), markup)
           w == write_file(content, Serialize(ins.tree), wr)
       IN IF ~ins.ok THEN [outcome |-> ins.why, content |-> w.content]
          ELSE IF ~w.ok THEN [outcome |-> "write_failed", content |-> w.content]
          ELSE [outcome |-> "ok", content |-> w.content]

\* The outcome of one call and the file after it.  "raised": the exception
\* leaves process_single_html_file (ParserError is no XMLSyntaxError).
process_single_html_file(content, markup, wr) ==
  IF content.kind = "unreadable" THEN [outcome |-> "read_failed", content |-> content]
  ELSE IF content.kind = "empty" THEN [outcome |-> "raised", content |-> content]
  ELSE IF content.kind = "malformed" THEN [outcome |-> "parse_failed", content |-> content]
  ELSE LET ins == insert_versions_dropdown(ParseHtml(content), markup)
           w == write_file(content, Serialize(ins.tree), wr)
       IN IF ~ins.ok THEN [outcome |-> ins.why, content |-> content]
          ELSE IF ~w.ok THEN [outcome |-> "write_failed", content |-> w.content]
          ELSE [outcome |-> "ok", content |-> w.content]

(***************************************************************************)
(* update_single_search_json.  re.escape makes the pattern match base_url  *)
(* and version literally; the replacement string is a template, in which   *)
(* re.sub reads backslash escapes.                                         *)
(***************************************************************************)
\* The characters of the model's URLs, directory names and documents.
TextChars == {"u", "p", "/", "\\"}

\* The ASCII letters among them; none names an escape of a template.
BadEscapeLetters == {"u", "p"}

StartsWithAt(text, i, w) ==
  i + Len(w) - 1 <= Len(text) /\ SubSeq(text, i, i + Len(w) - 1) = w

\* (base_url)(?!version) matches at i.
MatchAt(text, i, url, ver) ==
  StartsWithAt(text, i, url) /\ ~StartsWithAt(text, i + Len(url), ver)

ReError == [ok |-> FALSE, text |-> <<>>]

RECURSIVE ExpandTemplate(_, _)
\* The text a replacement template stands for, from index i on, over
\* TextChars: \\ is a backslash, a backslash before a letter that names no
\* escape raises re.error, a backslash before any other character stays.
ExpandTemplate(t, i) ==
  IF i > Len(t) THEN [ok |-> TRUE, text |-> <<>>]
  ELSE IF t[i] /= "\\" THEN
    LET rest == ExpandTemplate(t, i + 1)
    IN IF rest.ok THEN [ok |-> TRUE, text |-> <<t[i]>> \o rest.text] ELSE ReError
  ELSE IF i = Len(t) \/ t[i + 1] \in BadEscapeLetters THEN ReError
  ELSE LET rest == ExpandTemplate(t, i + 2)
           this == IF t[i + 1] = "\\" THEN <<"\\">> ELSE <<"\\", t[i + 1]>>
       IN IF rest.ok THEN [ok |-> TRUE, text |-> this \o rest.text] ELSE ReError

CharAt(text, i) == IF i <= Len(text) THEN <<text[i]>> ELSE <<>>

RECURSIVE SubFrom(_, _, _, _, _)
\* Pattern.sub from index i on: the matches are found left to right and do
\* not overlap; an empty match is followed by the next character.
SubFrom(text, i, url, ver, repl) ==
  IF i > Len(text) + 1 THEN <<>>
  ELSE IF MatchAt(text, i, url, ver) THEN
    IF Len(url) > 0 THEN repl \o SubFrom(text, i + Len(url), url, ver, repl)
    ELSE repl \o CharAt(text, i) \o SubFrom(text, i + 1, url, ver, repl)
  ELSE CharAt(text, i) \o SubFrom(text, i + 1, url, ver, repl)

\* Lines 348-349: url_pattern.sub(f"{base_url}{version}/", file_content).
UrlPatternSub(text, url, ver) ==
  LET repl == ExpandTemplate(url \o ver \o <<"/">>, 1)
  IN IF repl.ok THEN [ok |-> TRUE, text |-> SubFrom(text, 1, url, ver, repl.text)]
     ELSE ReError

\* A search.json: unreadable, or its text.
UnreadableJson == [kind |-> "unreadable", text |-> <<>>]

JsonText(text) == [kind |-> "text", text |-> text]

\* One call: what it returned ("raised": re.error leaves the function),
\* whether it called write_file, the text sub computed and the file after.
update_single_search_json(content, ver, url, wr) ==
  LET updated == UrlPatternSub(content.text, url, ver)
      changed == updated.text /= content.text
  IN IF content.kind = "unreadable"
       THEN [returned |-> "False", wrote |-> FALSE, updated |-> ReError, content |-> content]
     ELSE IF ~updated.ok
       THEN [returned |-> "raised", wrote |-> FALSE, updated |-> updated, content |-> content]
     ELSE IF ~changed
       THEN [returned |-> "True", wrote |-> FALSE, updated |-> updated, content |-> content]
     ELSE IF wr = "written"
       THEN [returned |-> "True", wrote |-> TRUE, updated |-> updated,
             content |-> JsonText(updated.text)]
     ELSE [returned |-> "False", wrote |-> TRUE, updated |-> updated,
           content |-> IF wr = "denied" THEN content ELSE JsonText(<<>>)]

(***************************************************************************)
(* The parts a specification leaves alone.                                 *)
(***************************************************************************)
OrderIdle ==
  /\ matching_dirs = <<>>
  /\ refs_order = <<NameMain>>
  /\ ordered_refs = <<>>
  /\ remaining_sorted = <<>>
  /\ prev_ordered_refs = <<>>
  /\ gen_runs = 0

InjectIdle ==
  /\ html_file = Unreadable
  /\ html_before = Unreadable
  /\ dropdown_list = EmptyMarkup
  /\ inj_outcomes = <<>>

RewriteIdle ==
  /\ json_file = UnreadableJson
  /\ json_before = UnreadableJson
  /\ base_url = <<>>
  /\ version = <<>>
  /\ updated_content = ReError
  /\ rw_outcomes = <<>>

MainIdle ==
  /\ site = <<>>
  /\ site_before = <<>>
  /\ json_site = <<>>
  /\ phase = "idle"
  /\ next_html = 1
  /\ next_dir = 1
  /\ html_results = <<>>

(***************************************************************************)
(* SpecOrder: generate_dropdown_list, run after run over the same          *)
(* directories; each run's os.listdir returns them in an order of its own. *)
(***************************************************************************)
InitOrder ==
  /\ matching_dirs \in DistinctSeqsUpTo(DirNames, MaxListing)
  /\ refs_order \in SeqsUpTo(RefNames, MaxRefsOrder) \ {<<>>}
  /\ ordered_refs = <<>>
  /\ remaining_sorted = <<>>
  /\ prev_ordered_refs = <<>>
  /\ gen_runs = 0
  /\ InjectIdle /\ RewriteIdle /\ MainIdle

GenerateDropdownList ==
  /\ gen_runs < MaxGenRuns
  /\ \E listing \in Orderings(matching_dirs) :
       /\ matching_dirs' = listing
       /\ ordered_refs' = OrderedRefs(listing, refs_order)
       /\ remaining_sorted' =
            sort_remaining_refs(separate_refs(listing, refs_order).remaining_refs)
  /\ prev_ordered_refs' = ordered_refs
  /\ gen_runs' = gen_runs + 1
  /\ UNCHANGED <<refs_order, injectVars, rewriteVars, mainVars>>

NextOrder == GenerateDropdownList

SpecOrder == InitOrder /\ [][NextOrder]_vars

(***************************************************************************)
(* SpecInject: process_single_html_file, call after call on one file with  *)
(* the same markup.                                                        *)
(***************************************************************************)
\* What a widget of an earlier run lists, and what this run's markup lists.
OldLinks == <<>>

NewMarkup == generate_dropdown_list(<<Name10>>, <<NameMain>>, <<"u", "/">>)

\* A child of the <ul> of a starting page.
StartingNodes ==
  {Item, Other}
    \cup {Widget(id, OldLinks) : id \in IdValues}
    \cup {Div(<<Widget(id, OldLinks)>>) : id \in IdValues}

\* Pages as pkgdown wrote them: with the navbar <ul> or without it.
StartingPages ==
  {Page(FALSE, TRUE, kids) : kids \in SeqsUpTo(StartingNodes, MaxChildren)}
    \cup {Page(FALSE, FALSE, <<>>)}

InitInject ==
  /\ html_file \in StartingPages \cup {Unreadable, EmptyDocument, Malformed}
  /\ html_before = html_file
  /\ dropdown_list \in {NewMarkup, EmptyMarkup}
  /\ inj_outcomes = <<>>
  /\ OrderIdle /\ RewriteIdle /\ MainIdle

ProcessSingleHtmlFile ==
  /\ Len(inj_outcomes) < MaxInjRuns
  /\ \E wr \in WriteResults :
       LET r == process_single_html_file(html_file, dropdown_list, wr)
       IN /\ html_file' = r.content
          /\ inj_outcomes' = Append(inj_outcomes, r.outcome)
  /\ html_before' = html_file
  /\ UNCHANGED <<dropdown_list, orderVars, rewriteVars, mainVars>>

NextInject == ProcessSingleHtmlFile

SpecInject == InitInject /\ [][NextInject]_vars

(***************************************************************************)
(* SpecRewrite: update_single_search_json, call after call on one          *)
(* search.json with the same base_url and version.                         *)
(***************************************************************************)
\* A directory name is not empty and holds no "/".
VersionNames ==
  SeqsUpTo(TextChars \ {"/"}, MaxVersionLen) \ {<<>>}

InitRewrite ==
  /\ json_file \in {JsonText(t) : t \in SeqsUpTo(TextChars, MaxTextLen)} \cup {UnreadableJson}
  /\ json_before = json_file
  /\ base_url \in SeqsUpTo(TextChars, MaxUrlLen)
  /\ version \in VersionNames
  /\ updated_content = ReError
  /\ rw_outcomes = <<>>
  /\ OrderIdle /\ InjectIdle /\ MainIdle

UpdateSingleSearchJson ==
  /\ Len(rw_outcomes) < MaxRwRuns
  /\ \E wr \in WriteResults :
       LET r == update_single_search_json(json_file, version, base_url, wr)
       IN /\ json_file' = r.content
          /\ updated_content' = r.updated
          /\ rw_outcomes' = Append(rw_outcomes, [returned |-> r.returned, wrote |-> r.wrote])
  /\ json_before' = json_file
  /\ UNCHANGED <<base_url, version, orderVars, injectVars, mainVars>>

NextRewrite == UpdateSingleSearchJson

SpecRewrite == InitRewrite /\ [][NextRewrite]_vars

(***************************************************************************)
(* Spec: main().  process_html_files_in_directory builds the markup and    *)
(* visits the *.html files; update_search_json_urls then visits the        *)
(* matching directories.  An exception that leaves a call ends the run.    *)
(***************************************************************************)
SiteDirNames == {NameMain, Name10}

SiteBaseUrl == <<"u", "/">>

\* The *.html files of the site, in the order os.walk yields them.
HtmlFiles == 1..NumHtmlFiles

SitePages ==
  {Unreadable, EmptyDocument, Malformed,
   Page(FALSE, FALSE, <<Item>>),
   Page(FALSE, TRUE, <<Other>>),
   Page(FALSE, TRUE, <<Item>>),
   Page(TRUE, TRUE, <<Item, Div(<<Widget(NoId, OldLinks)>>)>>)}

\* A matching directory's search.json: none, or its text.
NoJson == [kind |-> "absent", text |-> <<>>]

SiteJsons ==
  {NoJson, UnreadableJson,
   JsonText(<<"u", "/", "p">>),
   JsonText(<<"p">>)}

Init ==
  /\ matching_dirs \in DistinctSeqsUpTo(SiteDirNames, MaxSiteDirs)
  /\ refs_order = <<NameMain>>
  /\ ordered_refs = <<>>
  /\ remaining_sorted = <<>>
  /\ prev_ordered_refs = <<>>
  /\ gen_runs = 0
  /\ InjectIdle
  /\ json_file = UnreadableJson
  /\ json_before = UnreadableJson
  /\ base_url = SiteBaseUrl
  /\ version = <<>>
  /\ updated_content = ReError
  /\ rw_outcomes = <<>>
  /\ site \in [HtmlFiles -> SitePages]
  /\ site_before = site
  /\ json_site \in [Range(matching_dirs) -> SiteJsons]
  /\ phase = "start"
  /\ next_html = 1
  /\ next_dir = 1
  /\ html_results = [f \in HtmlFiles |-> "none"]

\* Line 322.
BuildDropdownList ==
  /\ phase = "start"
  /\ ordered_refs' = OrderedRefs(matching_dirs, refs_order)
  /\ dropdown_list' = generate_dropdown_list(matching_dirs, refs_order, base_url)
  /\ phase' = "html"
  /\ UNCHANGED <<matching_dirs, refs_order, remaining_sorted, prev_ordered_refs,
                 gen_runs, html_file, html_before, inj_outcomes, rewriteVars,
                 site, site_before, json_site, next_html, next_dir, html_results>>

\* Lines 324-332, one file.
ProcessNextHtmlFile ==
  /\ phase = "html"
  /\ next_html <= NumHtmlFiles
  /\ \E wr \in WriteResults :
       LET r == process_single_html_file(site[next_html], dropdown_list, wr)
       IN /\ site' = [site EXCEPT ![next_html] = r.content]
          /\ html_results' = [html_results EXCEPT ![next_html] = r.outcome]
          /\ phase' = IF r.outcome = "raised" THEN "crashed" ELSE "html"
  /\ next_html' = next_html + 1
  /\ UNCHANGED <<orderVars, injectVars, rewriteVars, site_before, json_site, next_dir>>

\* Line 409: main goes on to update_search_json_urls.
StartSearchJsonUrls ==
  /\ phase = "html"
  /\ next_html > NumHtmlFiles
  /\ phase' = "json"
  /\ UNCHANGED <<orderVars, injectVars, rewriteVars, site, site_before, json_site,
                 next_html, next_dir, html_results>>

\* Lines 372-377, one directory.
UpdateNextSearchJson ==
  /\ phase = "json"
  /\ next_dir <= Len(matching_dirs)
  /\ LET d == matching_dirs[next_dir]
     IN IF json_site[d].kind = "absent"
          THEN UNCHANGED <<json_site, phase>>
        ELSE \E wr \in WriteResults :
               LET r == update_single_search_json(json_site[d], d, base_url, wr)
               IN /\ json_site' = [json_site EXCEPT ![d] = r.content]
                  /\ phase' = IF r.returned = "raised" THEN "crashed" ELSE "json"
  /\ next_dir' = next_dir + 1
  /\ UNCHANGED <<orderVars, injectVars, rewriteVars, site, site_before, next_html,
                 html_results>>

Finish ==
  /\ phase = "json"
  /\ next_dir > Len(matching_dirs)
  /\ phase' = "done"
  /\ UNCHANGED <<orderVars, injectVars, rewriteVars, site, site_before, json_site,
                 next_html, next_dir, html_results>>

Next ==
  \/ BuildDropdownList
  \/ ProcessNextHtmlFile
  \/ StartSearchJsonUrls
  \/ UpdateNextSearchJson
  \/ Finish

Spec == Init /\ [][Next]_vars

(***************************************************************************)
(* The claims.                                                             *)
(***************************************************************************)
Last(s) == s[Len(s)]

IsPrefix(p, s) == Len(p) <= Len(s) /\ SubSeq(s, 1, Len(p)) = p

\* s with every entry that repeats an earlier one left out.
FirstOccurrences(s) ==
  LET keep == SelectSeq(Indices(s), LAMBDA i : \A j \in 1..(i - 1) : s[j] /= s[i])
  IN [n \in 1..Len(keep) |-> s[keep[n]]]

\* The priority-list entries present among the candidates, each once, in the
\* priority list's order.
PresentPriority ==
  FirstOccurrences(SelectSeq(refs_order, LAMBDA d : InSeq(d, matching_dirs)))

\* C1: the order generate_dropdown_list builds starts with exactly the
\* priority-list entries present among the candidates, in the priority
\* list's relative order (no priority entry comes after that prefix), and
\* holds no reference twice.
C1_PriorityPrefixNoDuplicates ==
  gen_runs >= 1 =>
    /\ IsPrefix(PresentPriority, ordered_refs)
    /\ \A i \in (Len(PresentPriority) + 1)..Len(ordered_refs) :
         ~InSeq(ordered_refs[i], refs_order)
    /\ NoDuplicates(ordered_refs)

Parseable(ref) == Version(ref).ok

MixesParseable(refs) ==
  (\E i \in 1..Len(refs) : Parseable(refs[i])) /\ (\E i \in 1..Len(refs) : ~Parseable(refs[i]))

\* C2: when the remainder mixes names that parse as versions with names that
\* do not, sort_remaining_refs puts every parseable name before every
\* unparseable one, the parseable names strictly descending by version and
\* the unparseable names strictly descending lexically.
C2_ParseableFirstDescending ==
  (gen_runs >= 1 /\ MixesParseable(remaining_sorted)) =>
    \A i, j \in 1..Len(remaining_sorted) :
      i < j =>
        LET a == remaining_sorted[i]
            b == remaining_sorted[j]
        IN /\ Parseable(b) => Parseable(a)
           /\ Parseable(a) /\ Parseable(b) =>
                SeqLess(Version(b).release, Version(a).release, 1)
           /\ ~Parseable(a) /\ ~Parseable(b) => StrLess(b, a)

\* C3: when two calls of process_single_html_file in succession with the
\* same markup both succeed, the page after the second is the page after
\* the first.
C3_InjectorIdempotent ==
  (Len(inj_outcomes) >= 2
     /\ inj_outcomes[Len(inj_outcomes) - 1] = "ok"
     /\ Last(inj_outcomes) = "ok")
    => html_file = html_before

WidgetsOf(page) == ExistingFrom(page.kids, 1)

NodeAt(kids, path) ==
  IF Len(path) = 1 THEN kids[path[1]] ELSE kids[path[1]].kids[path[2]]

\* C4: after a successful call on a page whose navbar holds one or more
\* widgets, the navbar holds exactly one widget: the freshly parsed markup,
\* at the place of the first widget the page held.
C4_ExactlyOneWidgetAfterReplace ==
  (Len(inj_outcomes) >= 1 /\ Last(inj_outcomes) = "ok" /\ Len(WidgetsOf(html_before)) >= 1)
    => /\ Len(WidgetsOf(html_file)) = 1
       /\ WidgetsOf(html_file)[1].path = WidgetsOf(html_before)[1].path
       /\ NodeAt(html_file.kids, WidgetsOf(html_file)[1].path)
            = create_versions_dropdown(dropdown_list).li

\* What goes in after the character at e: ver and "/" when an occurrence of
\* url that ver does not immediately follow ends there.
InsertedAfter(text, e, url, ver) ==
  IF e - Len(url) + 1 >= 1 /\ MatchAt(text, e - Len(url) + 1, url, ver)
    THEN ver \o <<"/">> ELSE <<>>

RECURSIVE VersionInsertedFrom(_, _, _, _)
\* The text with ver and "/" put right after each such occurrence.
VersionInsertedFrom(text, e, url, ver) ==
  IF e > Len(text) THEN <<>>
  ELSE (IF e >= 1 THEN <<text[e]>> ELSE <<>>)
       \o InsertedAfter(text, e, url, ver)
       \o VersionInsertedFrom(text, e + 1, url, ver)

\* C5: the text update_single_search_json computes is the input with
\* "version/" inserted right after each occurrence of base_url that version
\* does not immediately follow, every other occurrence left as it was.
C5_VersionInsertedAfterEachOccurrence ==
  (Len(rw_outcomes) >= 1 /\ json_before.kind = "text") =>
    updated_content =
      [ok |-> TRUE, text |-> VersionInsertedFrom(json_before.text, 0, base_url, version)]

\* C6: no failure on one HTML file stops the run: when main ends, every
\* *.html file was attempted and update_search_json_urls went through every
\* matching directory.
C6_EveryFileAttempted ==
  phase \in {"done", "crashed"} =>
    /\ \A f \in HtmlFiles : html_results[f] /= "none"
    /\ next_dir > Len(matching_dirs)

\* C7: an HTML file is overwritten only after parsing, locating the navbar
\* and the insert-or-replace step have all succeeded: after a call that did
\* not get as far as write_file (unreadable file, parse failure, missing
\* navbar, missing navbar items, unparsable markup) the file is as before.
C7_OverwrittenOnlyAfterSuccess ==
  (Len(inj_outcomes) >= 1 /\ Last(inj_outcomes) \notin {"ok", "write_failed"})
    => html_file = html_before

\* A call on a page without the navbar <ul> has reported the failure.
C7_Witness ==
  /\ Len(inj_outcomes) >= 1
  /\ Last(inj_outcomes) = "no_navbar"
  /\ html_before.kind = "page"
  /\ html_file = html_before

\* C8: when the navbar holds no widget, the freshly parsed widget element
\* itself is attached after the navbar's last child, so that the widget is
\* the last direct child of the navbar.
C8_WidgetIsLastChild ==
  (Len(inj_outcomes) >= 1 /\ Last(inj_outcomes) = "ok" /\ Len(WidgetsOf(html_before)) = 0)
    => /\ Len(html_file.kids) = Len(html_before.kids) + 1
       /\ Last(html_file.kids) = create_versions_dropdown(dropdown_list).li

\* C9: a second call of update_single_search_json on the document a first
\* call produced finds nothing to substitute: the text is unchanged,
\* write_file is not called and the call returns success.
C9_SecondRunIsNoOp ==
  (Len(rw_outcomes) = 2 /\ rw_outcomes[1].returned = "True") =>
    /\ rw_outcomes[2] = [returned |-> "True", wrote |-> FALSE]
    /\ updated_content = [ok |-> TRUE, text |-> json_before.text]
    /\ json_file = json_before

\* C10: the order generate_dropdown_list builds depends on the set of
\* candidate names and the priority list alone: two runs whose listings
\* return the same names in different orders build the same order.
C10_OrderIndependentOfListing ==
  gen_runs >= 2 => ordered_refs = prev_ordered_refs

====
